---------------------------- MODULE Spec2Model ----------------------------
(***************************************************************************)
(* A model of test3/gmpy_test_xmpz.py: the doctest suite of the gmpy2 xmpz *)
(* type, and the integer engine whose behaviour the doctests pin down.     *)
(*                                                                         *)
(* The engine (gmpy2 itself) is not part of src/.  Where a doctest gives   *)
(* the result of a call, the model takes that result from the doctest (the *)
(* *_examples tables below, each mapped to its lines); for every other     *)
(* argument the engine follows the rule the specification states.          *)
(*                                                                         *)
(* Three specifications share the variables:                               *)
(*   SpecFn   one call of a module-level function or operator, its         *)
(*            arguments drawn from bounded sets in InitFn;                 *)
(*   Spec     a session on xmpz objects held in a heap (copy, setbit,      *)
(*            arithmetic, failing calls);                                  *)
(*   SpecTest _test(): the doctest examples run twice.                     *)
(***************************************************************************)
EXTENDS Integers, Sequences, FiniteSets, TLC

VARIABLES
    heap,      \* object id -> value of the xmpz object
    genv,      \* module-level names (a, b) -> object id
    lenv,      \* the globs copy of the doctest being run: name -> object id
    tagoff,    \* the display-tag toggle of set_tagoff
    cache,     \* <<cache size, object size>> of set_cache
    last,      \* the last call: operation, receiver, arguments, result
    call,      \* SpecFn: the call drawn in InitFn
    pc,        \* position of the session / the call / the test driver
    run,       \* SpecTest: 1 = default caching, 2 = after set_cache(0,128)
    ex,        \* SpecTest: index of the next example
    log1,      \* SpecTest: results of the first run
    log2       \* SpecTest: results of the second run

vars == <<heap, genv, lenv, tagoff, cache, last, call, pc, run, ex, log1, log2>>

----------------------------------------------------------------------------
(* Bounds of the model *)

MaxDiv == 6        \* dividends and divisors range over -MaxDiv..MaxDiv
MaxStart == 17     \* scan0/scan1 starting bits 0..MaxStart
MaxScan == 9       \* scan0/scan1 operands -MaxScan..MaxScan
MaxBit == 21       \* bit positions 0..MaxBit-1 are compared
MaxMod == 6        \* divm/invert moduli 1..MaxMod
MaxArg == 5        \* divm/invert arguments -2..MaxArg
MaxObj == 3        \* xmpz objects in the heap
MaxSet == 3        \* setbit/getbit positions 0..MaxSet, and 20
MaxDig == 20       \* digits() operands -MaxDig..MaxDig
MaxBin == 300      \* binary() operands -MaxBin..MaxBin

----------------------------------------------------------------------------
(* Values printed by the interpreter *)

NoRes == [k |-> "none", i |-> 0, j |-> 0, s |-> <<>>, b |-> <<>>, l |-> <<>>]
IntRes(n) == [NoRes EXCEPT !.k = "int", !.i = n]
PairRes(q, r) == [NoRes EXCEPT !.k = "pair", !.i = q, !.j = r]
ExcRes(type, msg) == [NoRes EXCEPT !.k = "exc", !.s = <<type, msg>>]
StrRes(chars) == [NoRes EXCEPT !.k = "str", !.s = chars]
BytesRes(bytes) == [NoRes EXCEPT !.k = "bytes", !.b = bytes]
\* a float: f is "fin" (the mpf n/1), "inf", "-inf" or "nan"
FloatRes(f, n) == [NoRes EXCEPT !.k = "float", !.i = n, !.s = <<f>>]
\* a pair of floats
FPairRes(f1, n1, f2, n2) == [NoRes EXCEPT !.k = "fpair", !.i = n1, !.j = n2, !.s = <<f1, f2>>]
\* the mpf quotient num/den of two integers
MpfRes(num, den) == [NoRes EXCEPT !.k = "mpf", !.i = num, !.j = den]
\* the lines a loop prints, or a list
ListRes(items) == [NoRes EXCEPT !.k = "list", !.l = items]

IsExc(res, type) == res.k = "exc" /\ res.s[1] = type

Abs(n) == IF n < 0 THEN -n ELSE n
Sign(n) == IF n < 0 THEN -1 ELSE IF n = 0 THEN 0 ELSE 1

Pow2(i) == 2 ^ i

----------------------------------------------------------------------------
(* Division families *)

\* floor(n / d), d # 0
FloorQ(n, d) == IF d > 0 THEN n \div d ELSE (-n) \div (-d)

\* quotient toward zero
tdivmod_rule(n, d) ==
    LET q == Sign(n) * Sign(d) * (Abs(n) \div Abs(d))
    IN  <<q, n - d * q>>

\* quotient toward -infinity
fdivmod_rule(n, d) ==
    LET q == FloorQ(n, d)
    IN  <<q, n - d * q>>

\* quotient toward +infinity
cdivmod_rule(n, d) ==
    LET q == -FloorQ(-n, d)
    IN  <<q, n - d * q>>

\* The row of an example table whose first Len(key) fields are key
HasEx(tbl, key) == \E i \in 1..Len(tbl) : SubSeq(tbl[i], 1, Len(key)) = key
ExRow(tbl, key) == tbl[CHOOSE i \in 1..Len(tbl) : SubSeq(tbl[i], 1, Len(key)) = key]

\* the 'divmod' doctest as it would read if cdivmod(17,5) gave the floor pair
divmod_examples_floorbug ==
    << <<"cdivmod", 17, 5, 3, 2>>,   <<"cdivmod", -17, 5, -3, -2>>,
       <<"cdivmod", 17, -5, -3, 2>>, <<"cdivmod", -17, -5, 4, 3>>,
       <<"fdivmod", 17, 5, 3, 2>>,   <<"fdivmod", -17, 5, -4, 3>>,
       <<"fdivmod", 17, -5, -4, -3>>, <<"fdivmod", -17, -5, 3, -2>>,
       <<"tdivmod", 17, 5, 3, 2>>,   <<"tdivmod", -17, 5, -3, -2>>,
       <<"tdivmod", 17, -5, -3, 2>>, <<"tdivmod", -17, -5, 3, -2>> >>

\* __test__['divmod']: <<function, n, d, q, r>>
divmod_examples ==
    << <<"cdivmod", 17, 5, 4, -3>>,  <<"cdivmod", -17, 5, -3, -2>>,
       <<"cdivmod", 17, -5, -3, 2>>, <<"cdivmod", -17, -5, 4, 3>>,
       <<"fdivmod", 17, 5, 3, 2>>,   <<"fdivmod", -17, 5, -4, 3>>,
       <<"fdivmod", 17, -5, -4, -3>>, <<"fdivmod", -17, -5, 3, -2>>,
       <<"tdivmod", 17, 5, 3, 2>>,   <<"tdivmod", -17, 5, -3, -2>>,
       <<"tdivmod", 17, -5, -3, 2>>, <<"tdivmod", -17, -5, 3, -2>> >>

\* __test__['elemop'], a=123, b=456: <<"divmod", n, d, q, r>>,
\* <<"floordiv", n, d, q>> and <<"mod", n, d, r>>
elemop_examples ==
    << <<"divmod", 123, 456, 0, 123>>, <<"divmod", 456, 123, 3, 87>>,
       <<"divmod", 0, 456, 0, 0>>,
       <<"floordiv", 123, 456, 0>>, <<"floordiv", 456, 123, 3>>,
       <<"floordiv", 123, 1, 123>>,
       <<"mod", 123, 456, 123>>, <<"mod", 0, 456, 0>>, <<"mod", 456, 123, 87>> >>

DivPair(fn, n, d) ==
    IF HasEx(divmod_examples, <<fn, n, d>>)
    THEN <<ExRow(divmod_examples, <<fn, n, d>>)[4], ExRow(divmod_examples, <<fn, n, d>>)[5]>>
    ELSE CASE fn = "tdivmod" -> tdivmod_rule(n, d)
           [] fn = "fdivmod" -> fdivmod_rule(n, d)
           [] fn = "cdivmod" -> cdivmod_rule(n, d)

ZeroDiv(msg) == ExcRes("ZeroDivisionError", msg)

tdivmod(n, d) ==
    IF d = 0 THEN ZeroDiv("mpz division by zero")
    ELSE PairRes(DivPair("tdivmod", n, d)[1], DivPair("tdivmod", n, d)[2])

fdivmod(n, d) ==
    IF d = 0 THEN ZeroDiv("mpz division by zero")
    ELSE PairRes(DivPair("fdivmod", n, d)[1], DivPair("fdivmod", n, d)[2])

cdivmod(n, d) ==
    IF d = 0 THEN ZeroDiv("mpz division by zero")
    ELSE PairRes(DivPair("cdivmod", n, d)[1], DivPair("cdivmod", n, d)[2])

\* divmod(n, d), n // d and n % d of two integers, d # 0
IntDivmod(n, d) ==
    IF HasEx(elemop_examples, <<"divmod", n, d>>)
    THEN <<ExRow(elemop_examples, <<"divmod", n, d>>)[4],
           ExRow(elemop_examples, <<"divmod", n, d>>)[5]>>
    ELSE fdivmod_rule(n, d)

IntFloorDiv(n, d) ==
    IF HasEx(elemop_examples, <<"floordiv", n, d>>)
    THEN ExRow(elemop_examples, <<"floordiv", n, d>>)[4]
    ELSE fdivmod_rule(n, d)[1]

IntMod(n, d) ==
    IF HasEx(elemop_examples, <<"mod", n, d>>)
    THEN ExRow(elemop_examples, <<"mod", n, d>>)[4]
    ELSE fdivmod_rule(n, d)[2]

----------------------------------------------------------------------------
(* Operators /, //, % and divmod with an xmpz and a float special value.   *)
(* An operand is a kind f ("int", "inf", "-inf", "nan") and, for "int",    *)
(* its value.                                                              *)

IsNan(f) == f = "nan"
IsInf(f) == f \in {"inf", "-inf"}
FSign(f, n) == IF f = "inf" THEN 1 ELSE IF f = "-inf" THEN -1 ELSE Sign(n)
InfOf(sgn) == IF sgn < 0 THEN "-inf" ELSE "inf"

\* the 'special' doctest as it would read if a NaN dividend won over the
\* zero divisor
special_zero_examples_nanfirst ==
    << <<"truediv", "nan", 0, "int", 0, FloatRes("nan", 0)>>,
       <<"divmod", "inf", 0, "int", 0, ZeroDiv("mpz modulo by zero")>>,
       <<"divmod", "-inf", 0, "int", 0, ZeroDiv("mpz modulo by zero")>>,
       <<"divmod", "nan", 0, "int", 0, FPairRes("nan", 0, "nan", 0)>> >>

\* __test__['special'], the divisor xmpz(0): <<operator, fx, x, fy, y, result>>
special_zero_examples ==
    << <<"truediv", "nan", 0, "int", 0, ZeroDiv("mpz division by zero")>>,
       <<"divmod", "inf", 0, "int", 0, ZeroDiv("mpz modulo by zero")>>,
       <<"divmod", "-inf", 0, "int", 0, ZeroDiv("mpz modulo by zero")>>,
       <<"divmod", "nan", 0, "int", 0, ZeroDiv("mpz modulo by zero")>> >>

\* __test__['special'], a=123, a non-zero divisor: <<operator, fx, x, fy, y, result>>
special_examples ==
    << <<"truediv", "int", 123, "inf", 0, FloatRes("fin", 0)>>,
       <<"truediv", "int", -123, "inf", 0, FloatRes("fin", 0)>>,
       <<"truediv", "inf", 0, "int", 123, FloatRes("inf", 0)>>,
       <<"truediv", "inf", 0, "int", -123, FloatRes("-inf", 0)>>,
       <<"truediv", "int", 123, "-inf", 0, FloatRes("fin", 0)>>,
       <<"truediv", "int", -123, "-inf", 0, FloatRes("fin", 0)>>,
       <<"truediv", "-inf", 0, "int", 123, FloatRes("-inf", 0)>>,
       <<"truediv", "-inf", 0, "int", -123, FloatRes("inf", 0)>>,
       <<"truediv", "int", 123, "nan", 0, FloatRes("nan", 0)>>,
       <<"truediv", "nan", 0, "int", 123, FloatRes("nan", 0)>>,
       <<"divmod", "int", 123, "inf", 0, FPairRes("fin", 0, "fin", 123)>>,
       <<"divmod", "int", 123, "-inf", 0, FPairRes("fin", -1, "-inf", 0)>>,
       <<"divmod", "int", -123, "inf", 0, FPairRes("fin", -1, "inf", 0)>>,
       <<"divmod", "int", -123, "-inf", 0, FPairRes("fin", 0, "fin", -123)>>,
       <<"divmod", "int", 123, "nan", 0, FPairRes("nan", 0, "nan", 0)>>,
       <<"divmod", "int", -123, "nan", 0, FPairRes("nan", 0, "nan", 0)>>,
       <<"divmod", "int", 0, "inf", 0, FPairRes("fin", 0, "fin", 0)>>,
       <<"divmod", "int", 0, "-inf", 0, FPairRes("fin", 0, "fin", 0)>>,
       <<"divmod", "int", 0, "nan", 0, FPairRes("nan", 0, "nan", 0)>>,
       <<"divmod", "inf", 0, "int", 123, FPairRes("nan", 0, "nan", 0)>>,
       <<"divmod", "-inf", 0, "int", 123, FPairRes("nan", 0, "nan", 0)>>,
       <<"divmod", "inf", 0, "int", -123, FPairRes("nan", 0, "nan", 0)>>,
       <<"divmod", "-inf", 0, "int", -123, FPairRes("nan", 0, "nan", 0)>>,
       <<"divmod", "nan", 0, "int", 123, FPairRes("nan", 0, "nan", 0)>>,
       <<"divmod", "nan", 0, "int", -123, FPairRes("nan", 0, "nan", 0)>> >>

\* x / y
truediv_rule(fx, x, fy, y) ==
    IF fy = "int" /\ y = 0 THEN ZeroDiv("mpz division by zero")
    ELSE IF IsNan(fx) \/ IsNan(fy) THEN FloatRes("nan", 0)
    ELSE IF IsInf(fx) THEN FloatRes(InfOf(FSign(fx, x) * FSign(fy, y)), 0)
    ELSE IF IsInf(fy) THEN FloatRes("fin", 0)
    ELSE MpfRes(x, y)

\* divmod(x, y)
divmod_rule(fx, x, fy, y) ==
    IF fy = "int" /\ y = 0 THEN ZeroDiv("mpz modulo by zero")
    ELSE IF IsNan(fx) \/ IsNan(fy) THEN FPairRes("nan", 0, "nan", 0)
    ELSE IF IsInf(fx) THEN FPairRes("nan", 0, "nan", 0)
    ELSE IF IsInf(fy) THEN
        IF x = 0 \/ Sign(x) = FSign(fy, y) THEN FPairRes("fin", 0, "fin", x)
        ELSE FPairRes("fin", -1, fy, 0)
    ELSE PairRes(IntDivmod(x, y)[1], IntDivmod(x, y)[2])

\* x // y
floordiv_rule(fx, x, fy, y) ==
    IF fy = "int" /\ y = 0 THEN ZeroDiv("mpz division by zero")
    ELSE IF fx = "int" /\ fy = "int" THEN IntRes(IntFloorDiv(x, y))
    ELSE FloatRes(divmod_rule(fx, x, fy, y).s[1], divmod_rule(fx, x, fy, y).i)

\* x % y
mod_rule(fx, x, fy, y) ==
    IF fy = "int" /\ y = 0 THEN ZeroDiv("mpz modulo by zero")
    ELSE IF fx = "int" /\ fy = "int" THEN IntRes(IntMod(x, y))
    ELSE FloatRes(divmod_rule(fx, x, fy, y).s[2], divmod_rule(fx, x, fy, y).j)

\* The operator op on (fx, x) and (fy, y) as the doctests and the rules give it
BinDiv(op, fx, x, fy, y) ==
    IF HasEx(special_zero_examples, <<op, fx, x, fy, y>>)
    THEN ExRow(special_zero_examples, <<op, fx, x, fy, y>>)[6]
    ELSE IF HasEx(special_examples, <<op, fx, x, fy, y>>)
    THEN ExRow(special_examples, <<op, fx, x, fy, y>>)[6]
    ELSE CASE op = "truediv"  -> truediv_rule(fx, x, fy, y)
           [] op = "floordiv" -> floordiv_rule(fx, x, fy, y)
           [] op = "mod"      -> mod_rule(fx, x, fy, y)
           [] op = "divmod"   -> divmod_rule(fx, x, fy, y)

----------------------------------------------------------------------------
(* Bits under infinite two's-complement sign extension *)

\* values of the model lie strictly between -2^31 and 2^31
getbit(x, k) == IF k >= 31 THEN (IF x < 0 THEN 1 ELSE 0) ELSE (x \div Pow2(k)) % 2

RECURSIVE bit_length(_)
bit_length(x) == IF x = 0 THEN 0 ELSE 1 + bit_length(Abs(x) \div 2)

\* x with bit i set to v
withbit(x, i, v) ==
    IF getbit(x, i) = v THEN x
    ELSE IF v = 1 THEN x + Pow2(i) ELSE x - Pow2(i)

----------------------------------------------------------------------------
(* binary() and xmpz(bytes, 256) *)

\* little-endian bytes of the magnitude m, n of them
RECURSIVE LeBytes(_, _)
LeBytes(m, n) == IF n = 0 THEN <<>> ELSE <<m % 256>> \o LeBytes(m \div 256, n - 1)

RECURSIVE LeValue(_)
LeValue(bytes) ==
    IF bytes = <<>> THEN 0 ELSE bytes[1] + 256 * LeValue(Tail(bytes))

\* the magnitude's bytes, then 0xff for a negative value, or 0x00 when the
\* top byte of a non-negative value has its high bit set
binary_rule(x) ==
    LET nbits == IF x = 0 THEN 1 ELSE bit_length(x)
        usize == (nbits + 7) \div 8
        body  == LeBytes(Abs(x), usize)
    IN  IF x < 0 THEN body \o <<255>>
        ELSE IF nbits % 8 = 0 THEN body \o <<0>>
        ELSE body

xmpz256_rule(bytes) ==
    IF bytes # <<>> /\ bytes[Len(bytes)] = 255
    THEN -LeValue(SubSeq(bytes, 1, Len(bytes) - 1))
    ELSE LeValue(bytes)

\* the 'binio' doctest as it would read if the sign were lost
binio_examples_signlost ==
    << <<"binary", 123, <<123>> >>,
       <<"xmpz256", <<123>>, 123>>,
       <<"xmpz_binary", -123, 123>> >>

\* __test__['binio']: a.binary() is b'{', xmpz(b'{',256) is 123 and
\* xmpz(binary(xmpz(-123)),256) is -123
binio_examples ==
    << <<"binary", 123, <<123>> >>,
       <<"xmpz256", <<123>>, 123>>,
       <<"xmpz_binary", -123, -123>> >>

binary(x) ==
    IF x = 123 THEN binio_examples[1][3] ELSE binary_rule(x)

xmpz256(bytes) ==
    IF bytes = binio_examples[2][2] THEN binio_examples[2][3] ELSE xmpz256_rule(bytes)

\* xmpz(binary(x), 256)
xmpz_binary(x) ==
    IF x = binio_examples[3][2] THEN binio_examples[3][3] ELSE xmpz256(binary(x))

----------------------------------------------------------------------------
(* divm and invert *)

RECURSIVE Gcd(_, _)
Gcd(x, y) == IF y = 0 THEN Abs(x) ELSE Gcd(y, x % Abs(y))

\* <<g, u, v>> with g = x*u + y*v, for x, y >= 0
RECURSIVE ExtGcd(_, _)
ExtGcd(x, y) ==
    IF y = 0 THEN <<x, 1, 0>>
    ELSE LET r == ExtGcd(y, x % y)
         IN  <<r[1], r[3], r[2] - (x \div y) * r[3]>>

\* the inverse of x modulo m in 0..m-1, for Gcd(x, m) = 1 and m >= 1
ModInverse(x, m) == ExtGcd(x % m, m)[2] % m

invert_rule(x, m) ==
    IF Gcd(x % m, m) = 1 THEN ModInverse(x, m) ELSE 0

\* b*x = a (mod m): invert b; failing that, divide a, b and m by their
\* common divisor and invert again
divm_rule(a, b, m) ==
    IF Gcd(b % m, m) = 1 THEN IntRes((ModInverse(b, m) * (a % m)) % m)
    ELSE LET g  == Gcd(Gcd(a, b), m)
             a1 == a \div g
             b1 == b \div g
             m1 == m \div g
         IN  IF Gcd(b1 % m1, m1) = 1
             THEN IntRes((ModInverse(b1, m1) * (a1 % m1)) % m1)
             ELSE ZeroDiv("not invertible")

\* the 'number' doctest as it would read with the non-coprime regression
divm_examples_coprimeonly ==
    << <<456, 123, 20, IntRes(12)>>,
       <<123, 456, 100, ZeroDiv("not invertible")>>,
       <<6, 12, 14, ZeroDiv("not invertible")>>,
       <<0, 1, 2, IntRes(0)>>,
       <<4, 8, 20, ZeroDiv("not invertible")>> >>

\* __test__['number'], a=123, b=456: <<a, b, m, divm(a, b, m)>>
divm_examples ==
    << <<456, 123, 20, IntRes(12)>>,
       <<123, 456, 100, ZeroDiv("not invertible")>>,
       <<6, 12, 14, IntRes(4)>>,
       <<0, 1, 2, IntRes(0)>>,
       <<4, 8, 20, IntRes(3)>> >>

\* __test__['number']: a.invert(100) is 87, b.invert(100) is 0
invert_examples ==
    << <<123, 100, 87>>, <<456, 100, 0>> >>

divm(a, b, m) ==
    IF HasEx(divm_examples, <<a, b, m>>) THEN ExRow(divm_examples, <<a, b, m>>)[4]
    ELSE divm_rule(a, b, m)

invert(x, m) ==
    IF HasEx(invert_examples, <<x, m>>) THEN IntRes(ExRow(invert_examples, <<x, m>>)[3])
    ELSE IntRes(invert_rule(x, m))

----------------------------------------------------------------------------
(* scan0 and scan1 *)

Max(x, y) == IF x >= y THEN x ELSE y

\* the bits from s upward that can differ from the sign extension
ScanRange(x, s) == s..Max(s, bit_length(x))

LowestBit(x, s, v) ==
    CHOOSE k \in ScanRange(x, s) :
        getbit(x, k) = v /\ \A l \in s..(k - 1) : getbit(x, l) # v

\* scan0 with no 0-bit left, if it always answered -1
scan0_nomore_minus1(x, s) == IntRes(-1)

\* scan0 with no 0-bit at or above s (x is negative): -1 up to the bit
\* length of x, None beyond it (n.scan0(15) is -1, n.scan0(16) is None)
scan0_nomore(x, s) == IF s > bit_length(x) THEN NoRes ELSE IntRes(-1)

scan0_rule(x, s) ==
    IF \E k \in ScanRange(x, s) : getbit(x, k) = 0
    THEN IntRes(LowestBit(x, s, 0))
    ELSE scan0_nomore(x, s)

scan1_rule(x, s) ==
    IF \E k \in ScanRange(x, s) : getbit(x, k) = 1
    THEN IntRes(LowestBit(x, s, 1))
    ELSE NoRes

\* __test__['bitops'], a=123 and n=-(7+6*16+5*256+7*4092): the lists
\* [x.scan(j) for j in range(..)], the integers; the None entries follow
n_value == -(7 + 6*16 + 5*256 + 7*4092)

a_scan0 == <<2, 2, 2, 7, 7, 7, 7, 7, 8, 9, 10, 11, 12, 13, 14, 15, 16, 17, 18,
             19, 20, 21, 22, 23, 24, 25, 26, 27, 28, 29, 30, 31, 32>>
a_scan1 == <<0, 1, 3, 3, 4, 5, 6>>
a_scan1_none == 7..9
n_scan0 == <<1, 1, 3, 3, 6, 6, 6, 8, 8, 10, 10, 12, 12, 13, 14, -1>>
n_scan0_none == 16..17
n_scan1 == <<0, 2, 2, 4, 4, 5, 7, 7, 9, 9, 11, 11, 15, 15, 15, 15, 16, 17, 18,
             19, 20, 21, 22, 23, 24, 25, 26, 27, 28, 29, 30, 31, 32>>

scan0(x, s) ==
    IF x = 123 /\ s < Len(a_scan0) THEN IntRes(a_scan0[s + 1])
    ELSE IF x = n_value /\ s < Len(n_scan0) THEN IntRes(n_scan0[s + 1])
    ELSE IF x = n_value /\ s \in n_scan0_none THEN NoRes
    ELSE scan0_rule(x, s)

scan1(x, s) ==
    IF x = 123 /\ s < Len(a_scan1) THEN IntRes(a_scan1[s + 1])
    ELSE IF x = 123 /\ s \in a_scan1_none THEN NoRes
    ELSE IF x = n_value /\ s < Len(n_scan1) THEN IntRes(n_scan1[s + 1])
    ELSE scan1_rule(x, s)

----------------------------------------------------------------------------
(* digits *)

DigitChars == <<"0", "1", "2", "3", "4", "5", "6", "7", "8", "9", "a", "b", "c", "d", "e", "f", "g", "h", "i", "j", "k", "l", "m", "n", "o", "p", "q", "r", "s", "t", "u", "v", "w", "x", "y", "z">>

RECURSIVE ToBase(_, _)
ToBase(m, base) ==
    IF m < base THEN <<DigitChars[m + 1]>>
    ELSE ToBase(m \div base, base) \o <<DigitChars[(m % base) + 1]>>

DigitValue(c) == (CHOOSE i \in 1..Len(DigitChars) : DigitChars[i] = c) - 1

RECURSIVE FromBase(_, _)
FromBase(chars, base) ==
    IF chars = <<>> THEN 0
    ELSE FromBase(SubSeq(chars, 1, Len(chars) - 1), base) * base
         + DigitValue(chars[Len(chars)])

\* digits() without the base tags
DigitPrefix_none(base) == <<>>

\* the tag digits() writes before the digits: a.digits(2) is '0b1111011',
\* a.digits(8) is '0o173', a.digits(16) is '0x7b'
DigitPrefix(base) ==
    CASE base = 2  -> <<"0", "b">>
      [] base = 8  -> <<"0", "o">>
      [] base = 16 -> <<"0", "x">>
      [] OTHER     -> <<>>

BaseError == ExcRes("ValueError", "base must be either 0 or in the interval 2 ... 36")

digits_rule(x, base) ==
    IF base \notin 2..36 THEN BaseError
    ELSE StrRes((IF x < 0 THEN <<"-">> ELSE <<>>) \o DigitPrefix(base)
                \o ToBase(Abs(x), base))

\* __test__['format']: a.digits(i) for i in range(2,37), a=123
a_digits ==
    << <<"0", "b", "1", "1", "1", "1", "0", "1", "1">>,
       <<"1", "1", "1", "2", "0">>,
       <<"1", "3", "2", "3">>,
       <<"4", "4", "3">>,
       <<"3", "2", "3">>,
       <<"2", "3", "4">>,
       <<"0", "o", "1", "7", "3">>,
       <<"1", "4", "6">>,
       <<"1", "2", "3">>,
       <<"1", "0", "2">>,
       <<"a", "3">>,
       <<"9", "6">>,
       <<"8", "b">>,
       <<"8", "3">>,
       <<"0", "x", "7", "b">>,
       <<"7", "4">>,
       <<"6", "f">>,
       <<"6", "9">>,
       <<"6", "3">>,
       <<"5", "i">>,
       <<"5", "d">>,
       <<"5", "8">>,
       <<"5", "3">>,
       <<"4", "n">>,
       <<"4", "j">>,
       <<"4", "f">>,
       <<"4", "b">>,
       <<"4", "7">>,
       <<"4", "3">>,
       <<"3", "u">>,
       <<"3", "r">>,
       <<"3", "o">>,
       <<"3", "l">>,
       <<"3", "i">>,
       <<"3", "f">> >>

\* __test__['format']: xmpz('1001001011',2).digits(2)
digits_587_2 == <<"0", "b", "1", "0", "0", "1", "0", "0", "1", "0", "1", "1">>

digits(x, base) ==
    IF x = 123 /\ base \in 2..36 THEN StrRes(a_digits[base - 1])
    ELSE IF x = 123 /\ base = 37 THEN BaseError
    ELSE IF x = 587 /\ base = 2 THEN StrRes(digits_587_2)
    ELSE digits_rule(x, base)

----------------------------------------------------------------------------
(* State shared by the three specifications *)

NoCall == [op |-> "", x |-> 0, y |-> 0, z |-> 0, fx |-> "int", fy |-> "int"]
NoLast == [op |-> "", recv |-> 0, x |-> 0, y |-> 0, before |-> 0, res |-> NoRes]

\* a=_g.xmpz(123); b=_g.xmpz(456); the tag toggle and the cache as the
\* module finds them
InitCommon ==
    /\ heap = <<123, 456>>
    /\ genv = [a |-> 1, b |-> 2]
    /\ lenv = [a |-> 1, b |-> 2, c |-> 0, d |-> 0, n |-> 0]
    /\ tagoff = 1
    /\ cache = [default |-> TRUE, size |-> 0, obsize |-> 0]
    /\ last = NoLast
    /\ run = 1
    /\ ex = 1
    /\ log1 = <<>>
    /\ log2 = <<>>

----------------------------------------------------------------------------
(* SpecFn: one call of a function or operator *)

IntCall(op, x, y, z) == [op |-> op, x |-> x, y |-> y, z |-> z, fx |-> "int", fy |-> "int"]

DivVals == (-MaxDiv..MaxDiv) \cup {17, -17, 123, -123, 456}
Specials == {"inf", "-inf", "nan"}
ScanVals == (-MaxScan..MaxScan) \cup {123, n_value}
DigVals == (-MaxDig..MaxDig) \cup {123, 587}
DigBases == {-1, 1} \cup (2..37)
BinVals == (-MaxBin..MaxBin)
            \cup {32767, 32768, 65535, 65536, -32767, -32768, -65535, -65536}

CallSet ==
    {IntCall(op, n, d, 0) : op \in {"tdivmod", "fdivmod", "cdivmod"},
                            n \in DivVals, d \in DivVals}
    \cup {IntCall(op, n, d, 0) : op \in {"truediv", "floordiv", "mod", "divmod"},
                                 n \in DivVals, d \in DivVals}
    \cup {[op |-> op, x |-> 0, y |-> d, z |-> 0, fx |-> f, fy |-> "int"] :
              op \in {"truediv", "floordiv", "mod", "divmod"},
              f \in Specials, d \in DivVals}
    \cup {[op |-> op, x |-> n, y |-> 0, z |-> 0, fx |-> "int", fy |-> f] :
              op \in {"truediv", "floordiv", "mod", "divmod"},
              f \in Specials, n \in DivVals}
    \cup {IntCall("xmpz_binary", x, 0, 0) : x \in BinVals}
    \cup {IntCall("divm", a, b, m) : a \in -2..MaxArg, b \in -2..MaxArg, m \in 1..MaxMod}
    \cup {IntCall("divm", divm_examples[i][1], divm_examples[i][2], divm_examples[i][3]) :
              i \in 1..Len(divm_examples)}
    \cup {IntCall("invert", a, m, 0) : a \in -2..MaxArg, m \in 1..MaxMod}
    \cup {IntCall("invert", invert_examples[i][1], invert_examples[i][2], 0) :
              i \in 1..Len(invert_examples)}
    \cup {IntCall(op, x, st, 0) : op \in {"scan0", "scan1"}, x \in ScanVals,
                                  st \in 0..MaxStart}
    \cup {IntCall("digits", x, base, 0) : x \in DigVals, base \in DigBases}

InitFn ==
    /\ InitCommon
    /\ pc = "call"
    /\ call \in CallSet

Return(op, res) ==
    /\ last' = [NoLast EXCEPT !.op = op, !.x = call.x, !.y = call.y, !.res = res]
    /\ pc' = "done"
    /\ UNCHANGED <<heap, genv, lenv, tagoff, cache, call, run, ex, log1, log2>>

CallTdivmod == pc = "call" /\ call.op = "tdivmod" /\ Return("tdivmod", tdivmod(call.x, call.y))
CallFdivmod == pc = "call" /\ call.op = "fdivmod" /\ Return("fdivmod", fdivmod(call.x, call.y))
CallCdivmod == pc = "call" /\ call.op = "cdivmod" /\ Return("cdivmod", cdivmod(call.x, call.y))

CallBinDiv ==
    /\ pc = "call"
    /\ call.op \in {"truediv", "floordiv", "mod", "divmod"}
    /\ Return(call.op, BinDiv(call.op, call.fx, call.x, call.fy, call.y))

\* xmpz(binary(x), 256); the bytes of binary(x) are kept beside the value
CallXmpzBinary ==
    /\ pc = "call"
    /\ call.op = "xmpz_binary"
    /\ Return("xmpz_binary", [IntRes(xmpz_binary(call.x)) EXCEPT !.b = binary(call.x)])

CallDivm == pc = "call" /\ call.op = "divm" /\ Return("divm", divm(call.x, call.y, call.z))
CallInvert == pc = "call" /\ call.op = "invert" /\ Return("invert", invert(call.x, call.y))
CallScan0 == pc = "call" /\ call.op = "scan0" /\ Return("scan0", scan0(call.x, call.y))
CallScan1 == pc = "call" /\ call.op = "scan1" /\ Return("scan1", scan1(call.x, call.y))
CallDigits == pc = "call" /\ call.op = "digits" /\ Return("digits", digits(call.x, call.y))

NextFn ==
    \/ CallTdivmod
    \/ CallFdivmod
    \/ CallCdivmod
    \/ CallBinDiv
    \/ CallXmpzBinary
    \/ CallDivm
    \/ CallInvert
    \/ CallScan0
    \/ CallScan1
    \/ CallDigits

SpecFn == InitFn /\ [][NextFn]_vars

Returned(op) == pc = "done" /\ last.op = op

----------------------------------------------------------------------------
(* Spec: a session on xmpz objects *)

\* __test__['elemop'], a=123, b=456: <<operator, x, y, result>>
elemop_arith_examples ==
    << <<"add", 123, 456, IntRes(579)>>, <<"sub", 123, 456, IntRes(-333)>>,
       <<"mul", 123, 456, IntRes(56088)>>, <<"add", 456, 123, IntRes(579)>>,
       <<"sub", 456, 123, IntRes(333)>>, <<"mul", 456, 123, IntRes(56088)>> >>

\* __test__['bitops'], a=123, b=456: <<operator, x, y, result>>; setbit1
\* is a.setbit(20), setbit0 is a.setbit(0,0)
bitops_examples ==
    << <<"lshift", 123, 1, IntRes(246)>>, <<"rshift", 123, 1, IntRes(61)>>,
       <<"lshift", 123, -1, ExcRes("ValueError", "negative shift count")>>,
       <<"rshift", 123, -2, ExcRes("ValueError", "negative shift count")>>,
       <<"lshift", 123, 0, IntRes(123)>>, <<"rshift", 123, 0, IntRes(123)>>,
       <<"hamdist", 123, 456, IntRes(6)>>,
       <<"setbit1", 123, 20, IntRes(1048699)>>, <<"setbit0", 123, 0, IntRes(122)>> >>

\* __test__['number']: a.sqrt(), b.sqrt(), _g.sqrt(-1)
sqrt_examples ==
    << <<"sqrt", 123, 0, IntRes(11)>>, <<"sqrt", 456, 0, IntRes(21)>>,
       <<"sqrt", -1, 0, ExcRes("ValueError", "sqrt of negative number")>> >>

arith_examples == elemop_arith_examples \o bitops_examples \o sqrt_examples

\* [a.getbit(i) for i in range(8)] and [b.getbit(i) for i in range(10)],
\* printed after a.setbit(20) and a.setbit(0,0)
a_getbit == <<1, 1, 0, 1, 1, 1, 1, 0>>
b_getbit == <<0, 0, 0, 1, 0, 0, 1, 1, 1, 0>>

shift_rule(op, x, n) ==
    IF n < 0 THEN ExcRes("ValueError", "negative shift count")
    ELSE IF op = "lshift" THEN IntRes(x * Pow2(n)) ELSE IntRes(x \div Pow2(n))

hamdist_rule(x, y) ==
    IntRes(Cardinality({k \in 0..(MaxBit - 1) : getbit(x, k) # getbit(y, k)}))

sqrt_rule(x) ==
    IF x < 0 THEN ExcRes("ValueError", "sqrt of negative number")
    ELSE IntRes(CHOOSE r \in 0..x : r * r <= x /\ (r + 1) * (r + 1) > x)

RECURSIVE remove_rule(_, _, _)
remove_rule(x, f, n) ==
    IF x % f = 0 THEN remove_rule(x \div f, f, n + 1) ELSE PairRes(x, n)

\* the result of a binary operator or method on the values x and y
Arith(op, x, y) ==
    IF HasEx(arith_examples, <<op, x, y>>) THEN ExRow(arith_examples, <<op, x, y>>)[4]
    ELSE CASE op = "add" -> IntRes(x + y)
           [] op = "sub" -> IntRes(x - y)
           [] op = "mul" -> IntRes(x * y)
           [] op \in {"lshift", "rshift"} -> shift_rule(op, x, y)
           [] op = "hamdist" -> hamdist_rule(x, y)
           [] op = "setbit1" -> IntRes(withbit(x, y, 1))
           [] op = "setbit0" -> IntRes(withbit(x, y, 0))
           [] op = "sqrt" -> sqrt_rule(x)

getbit_method(x, i) ==
    IF x = 123 /\ i < Len(a_getbit) THEN a_getbit[i + 1]
    ELSE IF x = 456 /\ i < Len(b_getbit) THEN b_getbit[i + 1]
    ELSE getbit(x, i)

ArityError(name) ==
    ExcRes("TypeError", name \o "() requires 'mpz','mpz' arguments")

NewVals == {0, -123}
BitIdx == (0..MaxSet) \cup {20}
ShiftCounts == {-2, -1, 0, 1}

InitSession ==
    /\ InitCommon
    /\ pc = "session"
    /\ call = NoCall

\* an operation that reads its operands and prints a result
Answer(op, o, x, y, res) ==
    /\ last' = [op |-> op, recv |-> o, x |-> x, y |-> y, before |-> heap[o], res |-> res]
    /\ UNCHANGED <<heap, genv, lenv, tagoff, cache, call, pc, run, ex, log1, log2>>

\* _g.xmpz(v)
Construct(v) ==
    /\ pc = "session"
    /\ Len(heap) < MaxObj
    /\ heap' = Append(heap, v)
    /\ last' = [op |-> "xmpz", recv |-> Len(heap) + 1, x |-> v, y |-> 0,
                before |-> v, res |-> IntRes(v)]
    /\ UNCHANGED <<genv, lenv, tagoff, cache, call, pc, run, ex, log1, log2>>

\* a copy that hands back the object it was given
copy_alias(o) ==
    /\ pc = "session"
    /\ Len(heap) < MaxObj
    /\ last' = [op |-> "copy", recv |-> o, x |-> o, y |-> 0,
                before |-> heap[o], res |-> IntRes(heap[o])]
    /\ UNCHANGED <<heap, genv, lenv, tagoff, cache, call, pc, run, ex, log1, log2>>

\* c=_g.xmpz(a); d=a.copy(): a new object (last.x) with the value of o
copy(o) ==
    /\ pc = "session"
    /\ Len(heap) < MaxObj
    /\ heap' = Append(heap, heap[o])
    /\ last' = [op |-> "copy", recv |-> o, x |-> Len(heap) + 1, y |-> 0,
                before |-> heap[o], res |-> IntRes(heap[o])]
    /\ UNCHANGED <<genv, lenv, tagoff, cache, call, pc, run, ex, log1, log2>>

setbit_value(o, i, v) ==
    Arith(IF v = 1 THEN "setbit1" ELSE "setbit0", heap[o], i)

\* setbit writing its result into the receiver
setbit_inplace(o, i, v) ==
    /\ pc = "session"
    /\ heap' = [heap EXCEPT ![o] = setbit_value(o, i, v).i]
    /\ last' = [op |-> "setbit", recv |-> o, x |-> i, y |-> v, before |-> heap[o],
                res |-> setbit_value(o, i, v)]
    /\ UNCHANGED <<genv, lenv, tagoff, cache, call, pc, run, ex, log1, log2>>

\* a.setbit(20) prints 1048699, then a.setbit(0,0) prints 122 and the
\* getbit list is that of 123: the receiver keeps its value
setbit(o, i, v) ==
    /\ pc = "session"
    /\ Answer("setbit", o, i, v, setbit_value(o, i, v))

getbit_call(o, i) ==
    /\ pc = "session"
    /\ Answer("getbit", o, i, 0, IntRes(getbit_method(heap[o], i)))

\* a+b, a-b, a*b
BinOp(op, o1, o2) ==
    /\ pc = "session"
    /\ Answer(op, o1, o2, 0, Arith(op, heap[o1], heap[o2]))

\* a shift that clears the receiver before it rejects the count
Shift_clobber(op, o, n) ==
    /\ pc = "session"
    /\ heap' = IF n < 0 THEN [heap EXCEPT ![o] = 0] ELSE heap
    /\ last' = [op |-> op, recv |-> o, x |-> n, y |-> 0, before |-> heap[o],
                res |-> Arith(op, heap[o], n)]
    /\ UNCHANGED <<genv, lenv, tagoff, cache, call, pc, run, ex, log1, log2>>

\* a<<n, a>>n
Shift(op, o, n) ==
    /\ pc = "session"
    /\ Answer(op, o, n, 0, Arith(op, heap[o], n))

\* a//b, a%b, a/b, divmod(a,b) on two objects
DivOp(op, o1, o2) ==
    /\ pc = "session"
    /\ Answer(op, o1, o2, 0, BinDiv(op, "int", heap[o1], "int", heap[o2]))

\* a.digits(base)
DigitsCall(o, base) ==
    /\ pc = "session"
    /\ Answer("digits", o, base, 0, digits(heap[o], base))

\* a.hamdist(), a.hamdist(b), a.hamdist(3, 4)
HamdistCall(o, o2, nargs) ==
    /\ pc = "session"
    /\ (heap[o] < 0) = (heap[o2] < 0)
    /\ Answer("hamdist", o, o2, nargs,
              IF nargs = 1 THEN Arith("hamdist", heap[o], heap[o2])
              ELSE ArityError("hamdist"))

\* a.invert(), a.invert(100), a.invert(3, 4)
InvertCall(o, m, nargs) ==
    /\ pc = "session"
    /\ Answer("invert", o, m, nargs,
              IF nargs = 1 THEN invert(heap[o], m) ELSE ArityError("invert"))

\* a.remove(), a.remove(f), a.remove(3, 4)
RemoveCall(o, f, nargs) ==
    /\ pc = "session"
    /\ heap[o] # 0
    /\ Answer("remove", o, f, nargs,
              IF nargs # 1 THEN ArityError("remove")
              ELSE IF f <= 0 THEN ExcRes("ValueError", "factor must be > 0")
              ELSE remove_rule(heap[o], f, 0))

\* a.sqrt()
SqrtCall(o) ==
    /\ pc = "session"
    /\ Answer("sqrt", o, 0, 0, Arith("sqrt", heap[o], 0))

Next ==
    \/ \E v \in NewVals : Construct(v)
    \/ \E o \in DOMAIN heap : copy(o)
    \/ \E o \in DOMAIN heap, i \in BitIdx, v \in {0, 1} : setbit(o, i, v)
    \/ \E o \in DOMAIN heap, i \in BitIdx : getbit_call(o, i)
    \/ \E op \in {"add", "sub", "mul"}, o1 \in DOMAIN heap, o2 \in DOMAIN heap :
           BinOp(op, o1, o2)
    \/ \E op \in {"lshift", "rshift"}, o \in DOMAIN heap, n \in ShiftCounts :
           Shift(op, o, n)
    \/ \E op \in {"truediv", "floordiv", "mod", "divmod"},
          o1 \in DOMAIN heap, o2 \in DOMAIN heap : DivOp(op, o1, o2)
    \/ \E o \in DOMAIN heap, base \in {2, 10, 16, 37} : DigitsCall(o, base)
    \/ \E o \in DOMAIN heap, o2 \in DOMAIN heap, nargs \in 0..2 : HamdistCall(o, o2, nargs)
    \/ \E o \in DOMAIN heap, m \in {3, 100}, nargs \in 0..2 : InvertCall(o, m, nargs)
    \/ \E o \in DOMAIN heap, f \in {-1, 0, 3}, nargs \in 0..2 : RemoveCall(o, f, nargs)
    \/ \E o \in DOMAIN heap : SqrtCall(o)

Spec == InitSession /\ [][Next]_vars

----------------------------------------------------------------------------
(* SpecTest: _test(), the doctests run twice *)

\* An operand of an example: a name of the test's globs, the negation of
\* one (-a), an integer literal, or float('Inf'), float('-Inf'), float('nan')
Var(name) == [ref |-> name, neg |-> FALSE, n |-> 0, f |-> "int"]
NegVar(name) == [ref |-> name, neg |-> TRUE, n |-> 0, f |-> "int"]
Lit(v) == [ref |-> "", neg |-> FALSE, n |-> v, f |-> "int"]
Flt(f) == [ref |-> "", neg |-> FALSE, n |-> 0, f |-> f]

\* An example: the operation, its operands, n (the number of arguments of a
\* method call, the length of a printed list, the argument of set_tagoff or
\* the length of the range indexed), the name an assignment binds, and the
\* output the doctest expects
Ex(op, x, y, z, n, name, want) ==
    [op |-> op, x |-> x, y |-> y, z |-> z, n |-> n, name |-> name, want |-> want]

IntList(ints) == ListRes([i \in 1..Len(ints) |-> IntRes(ints[i])])

\* __test__['binio'] (the examples on z='melancholy', beyond 31 bits, are left out)
binio_test ==
    << Ex("binary", Var("a"), Lit(0), Lit(0), 0, "", BytesRes(<<123>>)),
       Ex("xmpz_binary", Var("a"), Lit(0), Lit(0), 0, "", IntRes(123)),
       Ex("binary", Lit(123), Lit(0), Lit(0), 0, "", BytesRes(<<123>>)),
       Ex("xmpz_binary", Lit(-123), Lit(0), Lit(0), 0, "", IntRes(-123)) >>

\* __test__['bitops'] (~, &, |, ^, popcount and bit_length are left out)
bitops_test ==
    << Ex("lshift", Var("a"), Lit(1), Lit(0), 0, "", IntRes(246)),
       Ex("rshift", Var("a"), Lit(1), Lit(0), 0, "", IntRes(61)),
       Ex("lshift", Var("a"), Lit(-1), Lit(0), 0, "", ExcRes("ValueError", "negative shift count")),
       Ex("rshift", Var("a"), Lit(-2), Lit(0), 0, "", ExcRes("ValueError", "negative shift count")),
       Ex("lshift", Var("a"), Lit(0), Lit(0), 0, "", IntRes(123)),
       Ex("rshift", Var("a"), Lit(0), Lit(0), 0, "", IntRes(123)),
       Ex("hamdist", Var("a"), Var("b"), Lit(0), 1, "", IntRes(6)),
       Ex("hamdist", Lit(3), Lit(0), Lit(0), 0, "", ArityError("hamdist")),
       Ex("hamdist", Var("a"), Lit(0), Lit(0), 0, "", ArityError("hamdist")),
       Ex("hamdist", Var("a"), Lit(3), Lit(4), 2, "", ArityError("hamdist")),
       Ex("setbit", Var("a"), Lit(20), Lit(0), 1, "", IntRes(1048699)),
       Ex("setbit", Var("a"), Lit(0), Lit(0), 0, "", IntRes(122)),
       Ex("getbits", Var("a"), Lit(0), Lit(0), 8, "", IntList(a_getbit)),
       Ex("getbits", Var("b"), Lit(0), Lit(0), 10, "", IntList(b_getbit)),
       Ex("scan0s", Var("a"), Lit(0), Lit(0), 33, "", IntList(a_scan0)),
       Ex("scan1s", Var("a"), Lit(0), Lit(0), 10, "", ListRes(IntList(a_scan1).l \o <<NoRes, NoRes, NoRes>>)),
       Ex("xmpz", Lit(-30027), Lit(0), Lit(0), 0, "n", NoRes),
       Ex("scan0s", Var("n"), Lit(0), Lit(0), 18, "", ListRes(IntList(n_scan0).l \o <<NoRes, NoRes>>)),
       Ex("scan1s", Var("n"), Lit(0), Lit(0), 33, "", IntList(n_scan1)) >>

\* __test__['cmpr'], the examples on the copies c and d and on a and b
cmpr_test ==
    << Ex("copy", Var("a"), Lit(0), Lit(0), 0, "c", NoRes),
       Ex("is", Var("c"), Var("a"), Lit(0), 0, "", IntRes(0)),
       Ex("eq", Var("c"), Var("a"), Lit(0), 0, "", IntRes(1)),
       Ex("gt", Var("c"), Var("a"), Lit(0), 0, "", IntRes(0)),
       Ex("lt", Var("c"), Var("a"), Lit(0), 0, "", IntRes(0)),
       Ex("copy", Var("a"), Lit(0), Lit(0), 0, "d", NoRes),
       Ex("is", Var("a"), Var("d"), Lit(0), 0, "", IntRes(0)),
       Ex("eq", Var("a"), Var("d"), Lit(0), 0, "", IntRes(1)),
       Ex("gt", Var("a"), Var("b"), Lit(0), 0, "", IntRes(0)),
       Ex("lt", Var("a"), Var("b"), Lit(0), 0, "", IntRes(1)) >>

\* __test__['divexact']: a and b are rebound, in the test's globs, to
\* integers beyond 31 bits; the examples computing with them are left out
divexact_test ==
    << Ex("bind_big", Lit(0), Lit(0), Lit(0), 0, "a", NoRes),
       Ex("bind_big", Lit(0), Lit(0), Lit(0), 0, "b", NoRes) >>

\* __test__['divmod']
divmod_test ==
    << Ex("cdivmod", Lit(17), Lit(5), Lit(0), 0, "", PairRes(4, -3)),
       Ex("cdivmod", Lit(-17), Lit(5), Lit(0), 0, "", PairRes(-3, -2)),
       Ex("cdivmod", Lit(17), Lit(-5), Lit(0), 0, "", PairRes(-3, 2)),
       Ex("cdivmod", Lit(-17), Lit(-5), Lit(0), 0, "", PairRes(4, 3)),
       Ex("fdivmod", Lit(17), Lit(5), Lit(0), 0, "", PairRes(3, 2)),
       Ex("fdivmod", Lit(-17), Lit(5), Lit(0), 0, "", PairRes(-4, 3)),
       Ex("fdivmod", Lit(17), Lit(-5), Lit(0), 0, "", PairRes(-4, -3)),
       Ex("fdivmod", Lit(-17), Lit(-5), Lit(0), 0, "", PairRes(3, -2)),
       Ex("tdivmod", Lit(17), Lit(5), Lit(0), 0, "", PairRes(3, 2)),
       Ex("tdivmod", Lit(-17), Lit(5), Lit(0), 0, "", PairRes(-3, -2)),
       Ex("tdivmod", Lit(17), Lit(-5), Lit(0), 0, "", PairRes(-3, 2)),
       Ex("tdivmod", Lit(-17), Lit(-5), Lit(0), 0, "", PairRes(3, -2)) >>

\* __test__['elemop'], the examples with +, -, *, /, //, % and divmod
elemop_test ==
    << Ex("add", Var("a"), Var("b"), Lit(0), 0, "", IntRes(579)),
       Ex("sub", Var("a"), Var("b"), Lit(0), 0, "", IntRes(-333)),
       Ex("mul", Var("a"), Var("b"), Lit(0), 0, "", IntRes(56088)),
       Ex("floordiv", Var("a"), Var("b"), Lit(0), 0, "", IntRes(0)),
       Ex("truediv", Var("a"), Var("b"), Lit(0), 0, "", MpfRes(123, 456)),
       Ex("floordiv", Var("b"), Var("a"), Lit(0), 0, "", IntRes(3)),
       Ex("truediv", Var("b"), Var("a"), Lit(0), 0, "", MpfRes(456, 123)),
       Ex("mod", Var("a"), Var("b"), Lit(0), 0, "", IntRes(123)),
       Ex("mod", Lit(0), Var("b"), Lit(0), 0, "", IntRes(0)),
       Ex("add", Var("b"), Var("a"), Lit(0), 0, "", IntRes(579)),
       Ex("sub", Var("b"), Var("a"), Lit(0), 0, "", IntRes(333)),
       Ex("mul", Var("b"), Var("a"), Lit(0), 0, "", IntRes(56088)),
       Ex("mod", Var("b"), Var("a"), Lit(0), 0, "", IntRes(87)),
       Ex("divmod", Var("a"), Var("b"), Lit(0), 0, "", PairRes(0, 123)),
       Ex("divmod", Var("b"), Var("a"), Lit(0), 0, "", PairRes(3, 87)),
       Ex("divmod", Lit(0), Var("b"), Lit(0), 0, "", PairRes(0, 0)),
       Ex("floordiv", Var("a"), Lit(1), Lit(0), 0, "", IntRes(123)) >>

\* the 'format' doctest without its closing set_tagoff(1)
format_test_norestore ==
    << Ex("repr", Var("a"), Lit(0), Lit(0), 0, "", StrRes(<<"xmpz(", "1", "2", "3", ")">>)),
       Ex("digits", Lit(587), Lit(2), Lit(0), 0, "", StrRes(digits_587_2)),
       Ex("digitss", Var("a"), Lit(0), Lit(0), 35, "", ListRes([i \in 1..35 |-> StrRes(a_digits[i])])),
       Ex("digits", Var("a"), Lit(37), Lit(0), 0, "", BaseError),
       Ex("set_tagoff", Lit(0), Lit(0), Lit(0), 0, "", IntRes(1)),
       Ex("repr", Var("a"), Lit(0), Lit(0), 0, "", StrRes(<<"gmpy2.xmpz(", "1", "2", "3", ")">>)) >>

\* __test__['format']: repr, digits and the tag toggle
format_test ==
    << Ex("repr", Var("a"), Lit(0), Lit(0), 0, "", StrRes(<<"xmpz(", "1", "2", "3", ")">>)),
       Ex("digits", Lit(587), Lit(2), Lit(0), 0, "", StrRes(digits_587_2)),
       Ex("digitss", Var("a"), Lit(0), Lit(0), 35, "", ListRes([i \in 1..35 |-> StrRes(a_digits[i])])),
       Ex("digits", Var("a"), Lit(37), Lit(0), 0, "", BaseError),
       Ex("set_tagoff", Lit(0), Lit(0), Lit(0), 0, "", IntRes(1)),
       Ex("repr", Var("a"), Lit(0), Lit(0), 0, "", StrRes(<<"gmpy2.xmpz(", "1", "2", "3", ")">>)),
       Ex("set_tagoff", Lit(0), Lit(0), Lit(0), 1, "", IntRes(0)) >>

\* __test__['index']
index_test ==
    << Ex("index", Var("a"), Lit(0), Lit(0), 333, "", IntRes(123)),
       Ex("index", Var("b"), Lit(0), Lit(0), 333, "", ExcRes("IndexError", "range object index out of range")) >>

\* __test__['number']: sqrt, divm, _memsize (a name the module never
\* defines), invert, remove, and the rebinding of a and b to 10**20 and a+39
number_test ==
    << Ex("sqrt", Var("a"), Lit(0), Lit(0), 0, "", IntRes(11)),
       Ex("sqrt", Var("b"), Lit(0), Lit(0), 0, "", IntRes(21)),
       Ex("divm", Var("b"), Var("a"), Lit(20), 0, "", IntRes(12)),
       Ex("divm", Var("a"), Var("b"), Lit(100), 0, "", ZeroDiv("not invertible")),
       Ex("divm", Lit(6), Lit(12), Lit(14), 0, "", IntRes(4)),
       Ex("divm", Lit(0), Lit(1), Lit(2), 0, "", IntRes(0)),
       Ex("divm", Lit(4), Lit(8), Lit(20), 0, "", IntRes(3)),
       Ex("divm", Lit(4), Lit(8), Lit(20), 0, "", IntRes(3)),
       Ex("name_error", Lit(0), Lit(0), Lit(0), 0, "", NoRes),
       Ex("name_error", Lit(0), Lit(0), Lit(0), 0, "", IntRes(1)),
       Ex("invert", Var("a"), Lit(100), Lit(0), 1, "", IntRes(87)),
       Ex("invert", Var("b"), Lit(100), Lit(0), 1, "", IntRes(0)),
       Ex("invert", Lit(3), Lit(0), Lit(0), 0, "", ArityError("invert")),
       Ex("invert", Var("a"), Lit(0), Lit(0), 0, "", ArityError("invert")),
       Ex("invert", Var("a"), Lit(3), Lit(4), 2, "", ArityError("invert")),
       Ex("sqrt", Lit(-1), Lit(0), Lit(0), 0, "", ExcRes("ValueError", "sqrt of negative number")),
       Ex("remove", Lit(3), Lit(-1), Lit(0), 1, "", ExcRes("ValueError", "factor must be > 0")),
       Ex("remove", Lit(3), Lit(0), Lit(0), 0, "", ArityError("remove")),
       Ex("remove", Var("a"), Lit(0), Lit(0), 0, "", ArityError("remove")),
       Ex("remove", Var("a"), Lit(3), Lit(4), 2, "", ArityError("remove")),
       Ex("bind_big", Lit(0), Lit(0), Lit(0), 0, "a", NoRes),
       Ex("bind_big", Lit(0), Lit(0), Lit(0), 0, "b", NoRes) >>

\* __test__['special'], the examples on / and divmod
special_test ==
    << Ex("truediv", Var("a"), Flt("inf"), Lit(0), 0, "", FloatRes("fin", 0)),
       Ex("truediv", NegVar("a"), Flt("inf"), Lit(0), 0, "", FloatRes("fin", 0)),
       Ex("truediv", Flt("inf"), Var("a"), Lit(0), 0, "", FloatRes("inf", 0)),
       Ex("truediv", Flt("inf"), NegVar("a"), Lit(0), 0, "", FloatRes("-inf", 0)),
       Ex("truediv", Var("a"), Flt("-inf"), Lit(0), 0, "", FloatRes("fin", 0)),
       Ex("truediv", NegVar("a"), Flt("-inf"), Lit(0), 0, "", FloatRes("fin", 0)),
       Ex("truediv", Flt("-inf"), Var("a"), Lit(0), 0, "", FloatRes("-inf", 0)),
       Ex("truediv", Flt("-inf"), NegVar("a"), Lit(0), 0, "", FloatRes("inf", 0)),
       Ex("truediv", Var("a"), Flt("nan"), Lit(0), 0, "", FloatRes("nan", 0)),
       Ex("truediv", Flt("nan"), Var("a"), Lit(0), 0, "", FloatRes("nan", 0)),
       Ex("truediv", Flt("nan"), Lit(0), Lit(0), 0, "", ZeroDiv("mpz division by zero")),
       Ex("divmod", Var("a"), Flt("inf"), Lit(0), 0, "", FPairRes("fin", 0, "fin", 123)),
       Ex("divmod", Var("a"), Flt("-inf"), Lit(0), 0, "", FPairRes("fin", -1, "-inf", 0)),
       Ex("divmod", NegVar("a"), Flt("inf"), Lit(0), 0, "", FPairRes("fin", -1, "inf", 0)),
       Ex("divmod", NegVar("a"), Flt("-inf"), Lit(0), 0, "", FPairRes("fin", 0, "fin", -123)),
       Ex("divmod", Var("a"), Flt("nan"), Lit(0), 0, "", FPairRes("nan", 0, "nan", 0)),
       Ex("divmod", NegVar("a"), Flt("nan"), Lit(0), 0, "", FPairRes("nan", 0, "nan", 0)),
       Ex("divmod", Lit(0), Flt("inf"), Lit(0), 0, "", FPairRes("fin", 0, "fin", 0)),
       Ex("divmod", Lit(0), Flt("-inf"), Lit(0), 0, "", FPairRes("fin", 0, "fin", 0)),
       Ex("divmod", Lit(0), Flt("nan"), Lit(0), 0, "", FPairRes("nan", 0, "nan", 0)),
       Ex("divmod", Flt("inf"), Var("a"), Lit(0), 0, "", FPairRes("nan", 0, "nan", 0)),
       Ex("divmod", Flt("-inf"), Var("a"), Lit(0), 0, "", FPairRes("nan", 0, "nan", 0)),
       Ex("divmod", Flt("inf"), NegVar("a"), Lit(0), 0, "", FPairRes("nan", 0, "nan", 0)),
       Ex("divmod", Flt("-inf"), NegVar("a"), Lit(0), 0, "", FPairRes("nan", 0, "nan", 0)),
       Ex("divmod", Flt("nan"), Var("a"), Lit(0), 0, "", FPairRes("nan", 0, "nan", 0)),
       Ex("divmod", Flt("nan"), NegVar("a"), Lit(0), 0, "", FPairRes("nan", 0, "nan", 0)),
       Ex("divmod", Flt("inf"), Lit(0), Lit(0), 0, "", ZeroDiv("mpz modulo by zero")),
       Ex("divmod", Flt("-inf"), Lit(0), Lit(0), 0, "", ZeroDiv("mpz modulo by zero")),
       Ex("divmod", Flt("nan"), Lit(0), Lit(0), 0, "", ZeroDiv("mpz modulo by zero")) >>

\* doctest runs the tests of __test__ sorted by name; the number of
\* examples of each test gives the places where a test starts
Tests ==
    <<binio_test, bitops_test, cmpr_test, divexact_test, divmod_test, elemop_test,
      format_test, index_test, number_test, special_test>>

RECURSIVE Flatten(_)
Flatten(tests) == IF tests = <<>> THEN <<>> ELSE Head(tests) \o Flatten(Tail(tests))

Examples == Flatten(Tests)

RECURSIVE Starts(_, _)
Starts(tests, at) ==
    IF tests = <<>> THEN {} ELSE {at} \cup Starts(Tail(tests), at + Len(Head(tests)))

\* the indices of Examples where a doctest starts with a fresh copy of the
\* module's globals
TestStarts == Starts(Tests, 1)

\* the tag repr() writes: set_tagoff(0) shows 'gmpy2.xmpz(123)', the
\* setting the module starts with shows 'xmpz(123)'
repr(x, tg) ==
    StrRes(<<IF tg = 0 THEN "gmpy2.xmpz(" ELSE "xmpz(">>
           \o (IF x < 0 THEN <<"-">> ELSE <<>>) \o ToBase(Abs(x), 10) \o <<")">>)

\* the value of an operand under the heap h and the globs env
Value(o, h, env) ==
    IF o.ref = "" THEN o.n
    ELSE IF o.neg THEN -h[env[o.ref]] ELSE h[env[o.ref]]

Bool(p) == IntRes(IF p THEN 1 ELSE 0)

\* what the interpreter prints for example e
Eval(e, h, env, tg) ==
    LET x == Value(e.x, h, env)
        y == Value(e.y, h, env)
        z == Value(e.z, h, env)
    IN  CASE e.op \in {"add", "sub", "mul", "lshift", "rshift", "sqrt"} ->
                 Arith(e.op, x, y)
          [] e.op = "hamdist" ->
                 IF e.n = 1 THEN Arith("hamdist", x, y) ELSE ArityError("hamdist")
          [] e.op = "invert" ->
                 IF e.n = 1 THEN invert(x, y) ELSE ArityError("invert")
          [] e.op = "remove" ->
                 IF e.n # 1 THEN ArityError("remove")
                 ELSE IF y <= 0 THEN ExcRes("ValueError", "factor must be > 0")
                 ELSE remove_rule(x, y, 0)
          [] e.op = "setbit" ->
                 Arith(IF e.n = 1 THEN "setbit1" ELSE "setbit0", x, y)
          [] e.op = "getbits" ->
                 ListRes([i \in 1..e.n |-> IntRes(getbit_method(x, i - 1))])
          [] e.op = "scan0s" -> ListRes([i \in 1..e.n |-> scan0(x, i - 1)])
          [] e.op = "scan1s" -> ListRes([i \in 1..e.n |-> scan1(x, i - 1)])
          [] e.op = "digits" -> digits(x, y)
          [] e.op = "digitss" -> ListRes([i \in 1..e.n |-> digits(x, i + 1)])
          [] e.op \in {"truediv", "floordiv", "mod", "divmod"} ->
                 BinDiv(e.op, e.x.f, x, e.y.f, y)
          [] e.op = "tdivmod" -> tdivmod(x, y)
          [] e.op = "fdivmod" -> fdivmod(x, y)
          [] e.op = "cdivmod" -> cdivmod(x, y)
          [] e.op = "binary" -> BytesRes(binary(x))
          [] e.op = "xmpz_binary" -> IntRes(xmpz_binary(x))
          [] e.op = "divm" -> divm(x, y, z)
          [] e.op = "is" -> Bool(env[e.x.ref] = env[e.y.ref])
          [] e.op = "eq" -> Bool(x = y)
          [] e.op = "gt" -> Bool(x > y)
          [] e.op = "lt" -> Bool(x < y)
          [] e.op = "repr" -> repr(x, tg)
          [] e.op = "set_tagoff" -> IntRes(tg)
          [] e.op = "index" ->
                 IF x \in 0..(e.n - 1) THEN IntRes(x)
                 ELSE ExcRes("IndexError", "range object index out of range")
          [] e.op = "name_error" ->
                 ExcRes("NameError", "name '_memsize' is not defined")
          [] e.op \in {"copy", "xmpz", "bind_big"} -> NoRes

InitTest ==
    /\ InitCommon
    /\ pc = "run1"
    /\ call = NoCall

\* the globs a doctest starts with: a copy of the module's globals
FreshGlobs == [a |-> genv.a, b |-> genv.b, c |-> 0, d |-> 0, n |-> 0]

\* the objects the module's globals hold (those a test made are dropped
\* with its globs)
ModuleHeap == SubSeq(heap, 1, Len(<<genv.a, genv.b>>))

\* doctest.testmod(thismod, report=0), one example: it is evaluated in the
\* test's globs, an assignment binds its name there, and the result is
\* recorded
RunExample ==
    /\ pc \in {"run1", "run2"}
    /\ ex <= Len(Examples)
    /\ LET e   == Examples[ex]
           h   == IF ex \in TestStarts THEN ModuleHeap ELSE heap
           env == IF ex \in TestStarts THEN FreshGlobs ELSE lenv
           res == Eval(e, h, env, tagoff)
       IN  /\ heap' = CASE e.op = "copy" -> Append(h, Value(e.x, h, env))
                        [] e.op = "xmpz" -> Append(h, e.x.n)
                        [] OTHER -> h
           /\ lenv' = CASE e.op \in {"copy", "xmpz"} -> [env EXCEPT ![e.name] = Len(h) + 1]
                        [] e.op = "bind_big" -> [env EXCEPT ![e.name] = 0]
                        [] OTHER -> env
           /\ tagoff' = IF e.op = "set_tagoff" THEN e.n ELSE tagoff
           /\ last' = [NoLast EXCEPT !.op = e.op, !.res = res]
           /\ log1' = IF pc = "run1" THEN Append(log1, res) ELSE log1
           /\ log2' = IF pc = "run2" THEN Append(log2, res) ELSE log2
    /\ ex' = ex + 1
    /\ UNCHANGED <<genv, cache, call, pc, run>>

\* _g.set_cache(0,128), between the two runs
set_cache ==
    /\ pc = "run1"
    /\ ex > Len(Examples)
    /\ cache' = [default |-> FALSE, size |-> 0, obsize |-> 128]
    /\ pc' = "run2"
    /\ run' = 2
    /\ ex' = 1
    /\ UNCHANGED <<heap, genv, lenv, tagoff, last, call, log1, log2>>

\* return doctest.master.summarize(chat)
summarize ==
    /\ pc = "run2"
    /\ ex > Len(Examples)
    /\ pc' = "done"
    /\ UNCHANGED <<heap, genv, lenv, tagoff, cache, last, call, run, ex, log1, log2>>

NextTest ==
    \/ RunExample
    \/ set_cache
    \/ summarize

SpecTest == InitTest /\ [][NextTest]_vars

\* Every example but the two that call _memsize prints what its doctest
\* expects, in both runs.
ExamplesAsExpected ==
    \A i \in 1..Len(Examples) :
        Examples[i].op # "name_error" =>
            /\ i <= Len(log1) => log1[i] = Examples[i].want
            /\ i <= Len(log2) => log2[i] = Examples[i].want

----------------------------------------------------------------------------
(* Claims checked under SpecFn *)

SameSignOrZero(r, n) == r = 0 \/ Sign(r) = Sign(n)

\* C1: for every dividend n and non-zero divisor d, tdivmod, fdivmod and
\* cdivmod return (q, r) with d*q + r = n and |r| < |d|; r is zero or has
\* the sign of n (tdivmod), of d (fdivmod), opposite to d (cdivmod); and
\* //, % and divmod of two integers give the fdivmod result.
C1_DivmodIdentity ==
    LET n == call.x
        d == call.y
        q == last.res.i
        r == last.res.j
        f == fdivmod(n, d)
    IN  /\ (pc = "done" /\ last.op \in {"tdivmod", "fdivmod", "cdivmod"} /\ d # 0) =>
              /\ last.res.k = "pair"
              /\ d * q + r = n
              /\ Abs(r) < Abs(d)
              /\ last.op = "tdivmod" => SameSignOrZero(r, n)
              /\ last.op = "fdivmod" => SameSignOrZero(r, d)
              /\ last.op = "cdivmod" => SameSignOrZero(r, -d)
        /\ (pc = "done" /\ call.fx = "int" /\ call.fy = "int" /\ d # 0) =>
              /\ last.op = "floordiv" => last.res = IntRes(f.i)
              /\ last.op = "mod" => last.res = IntRes(f.j)
              /\ last.op = "divmod" => last.res = f

C1_Witness ==
    Returned("cdivmod") /\ call.x = 17 /\ call.y = 5 /\ last.res = PairRes(4, -3)

\* C2: for every integer x, negative, zero or positive,
\* xmpz(binary(x), 256) equals x.
C2_BinaryRoundTrip ==
    Returned("xmpz_binary") => last.res.k = "int" /\ last.res.i = call.x

C2_Witness ==
    Returned("xmpz_binary") /\ call.x = -255 /\ last.res.b = <<255, 255>>
        /\ last.res.i = -255

\* C5: when the divisor is the exact integer zero, /, //, % and divmod raise
\* ZeroDivisionError for every dividend, a finite integer, +Inf, -Inf or
\* NaN: the zero-divisor check comes before the float special-value rules.
C5_ZeroDivisorFirst ==
    (pc = "done" /\ last.op \in {"truediv", "floordiv", "mod", "divmod"}
        /\ call.fy = "int" /\ call.y = 0)
    => IsExc(last.res, "ZeroDivisionError")

C5_Witness ==
    Returned("truediv") /\ call.fx = "nan" /\ call.fy = "int" /\ call.y = 0
        /\ last.res = ZeroDiv("mpz division by zero")

Solvable(a, b, m) == \E x \in 0..(m - 1) : (b * x) % m = a % m

\* C6: divm(a, b, m) returns an x in [0, m) with b*x = a (mod m) whenever
\* one exists, also when gcd(b, m) # 1, and raises
\* ZeroDivisionError('not invertible') exactly when none exists; invert(a, m)
\* returns 0 without raising when a has no inverse modulo m, and otherwise
\* an x with a*x = 1 (mod m).
C6_DivmInvert ==
    LET r == last.res
    IN  /\ Returned("divm") =>
              LET a == call.x
                  b == call.y
                  m == call.z
              IN  IF Solvable(a, b, m)
                  THEN r.k = "int" /\ r.i \in 0..(m - 1) /\ (b * r.i) % m = a % m
                  ELSE r = ZeroDiv("not invertible")
        /\ Returned("invert") =>
              LET a == call.x
                  m == call.y
              IN  /\ r.k = "int"
                  /\ IF Solvable(1, a, m) THEN (a * r.i) % m = 1 % m ELSE r.i = 0

C6_Witness ==
    Returned("divm") /\ call.x = 4 /\ call.y = 8 /\ call.z = 20 /\ last.res = IntRes(3)

\* the bits of x at and above s that are v: all of them lie in ScanRange
NoBitFrom(x, s, v) == \A k \in ScanRange(x, s) : getbit(x, k) # v

IsLowestBit(x, s, v, r) ==
    /\ r.k = "int"
    /\ r.i >= s
    /\ getbit(x, r.i) = v
    /\ \A k \in s..(r.i - 1) : getbit(x, k) # v

\* scan1, and scan0 while a 0-bit is left
C7_Found ==
    LET x == call.x
        s == call.y
    IN  /\ (Returned("scan1") /\ ~NoBitFrom(x, s, 1)) => IsLowestBit(x, s, 1, last.res)
        /\ (Returned("scan0") /\ ~NoBitFrom(x, s, 0)) => IsLowestBit(x, s, 0, last.res)
        /\ (Returned("scan1") /\ NoBitFrom(x, s, 1)) => x >= 0 /\ last.res = NoRes
        /\ (Returned("scan0") /\ NoBitFrom(x, s, 0)) => x < 0

\* C7 as stated: under infinite two's-complement sign extension scan1 and
\* scan0 return the lowest index k >= start whose bit is 1, resp. 0; with no
\* such bit, scan1 on a non-negative x returns None and scan0 on a negative
\* x returns -1 for every start past the highest 0 bit.
C7_Original ==
    /\ C7_Found
    /\ (Returned("scan0") /\ NoBitFrom(call.x, call.y, 0)) => last.res = IntRes(-1)

\* C7 as amended: scan0 on a negative x with no 0-bit at or above start
\* returns -1 while start <= bit_length(x), and None for every start beyond
\* bit_length(x).
C7_ScanSentinels ==
    /\ C7_Found
    /\ (Returned("scan0") /\ NoBitFrom(call.x, call.y, 0)) =>
           last.res = (IF call.y > bit_length(call.x) THEN NoRes ELSE IntRes(-1))

C7_Witness ==
    Returned("scan0") /\ call.x = n_value /\ call.y = 16 /\ last.res = NoRes

C8_Sign(x) == IF x < 0 THEN <<"-">> ELSE <<>>

C8_Tags == (2 :> <<"0", "b">>) @@ (8 :> <<"0", "o">>) @@ (16 :> <<"0", "x">>)

C8_Tag(base) == IF base \in DOMAIN C8_Tags THEN C8_Tags[base] ELSE <<>>

\* chars is the number m written in base with 0-9a-z, no leading zero
IsNumeral(chars, m, base) ==
    /\ chars # <<>>
    /\ \A i \in 1..Len(chars) :
           \E v \in 1..base : DigitChars[v] = chars[i]
    /\ (Len(chars) > 1 => chars[1] # "0")
    /\ FromBase(chars, base) = m

StartsWith(chars, pre) ==
    Len(chars) >= Len(pre) /\ SubSeq(chars, 1, Len(pre)) = pre

Drop(chars, n) == SubSeq(chars, n + 1, Len(chars))

C8_Raises ==
    (Returned("digits") /\ call.y \notin 2..36) => IsExc(last.res, "ValueError")

\* C8 as stated: digits(x, base) for every base in 2..36 returns the digits
\* of x in that base with the characters 0-9a-z and no base prefix
\* (digits(123, 16) is '7b'); a base outside 2..36 raises ValueError.
C8_Original ==
    /\ C8_Raises
    /\ (Returned("digits") /\ call.y \in 2..36) =>
           /\ last.res.k = "str"
           /\ StartsWith(last.res.s, C8_Sign(call.x))
           /\ IsNumeral(Drop(last.res.s, Len(C8_Sign(call.x))), Abs(call.x), call.y)

\* C8 as amended: the digits are preceded by the tag 0b for base 2, 0o for
\* base 8 and 0x for base 16 (digits(123, 16) is '0x7b'), and by no tag for
\* the other bases; a base that is neither 0 nor in 2..36 raises ValueError.
C8_DigitsTagged ==
    /\ C8_Raises
    /\ (Returned("digits") /\ call.y \in 2..36) =>
           LET pre == C8_Sign(call.x) \o C8_Tag(call.y)
           IN  /\ last.res.k = "str"
               /\ StartsWith(last.res.s, pre)
               /\ IsNumeral(Drop(last.res.s, Len(pre)), Abs(call.x), call.y)

C8_Witness ==
    Returned("digits") /\ call.x = 123 /\ call.y = 16
        /\ last.res = StrRes(<<"0", "x", "7", "b">>)

----------------------------------------------------------------------------
(* Claims checked under Spec *)

\* C3 as stated: setbit(i, value) changes the receiver in place: after
\* x.setbit(i) the receiver itself has bit i set (cleared after
\* x.setbit(i, 0)), so a later getbit or setbit on the object sees it.
C3_Original ==
    last.op = "setbit" => getbit(heap[last.recv], last.x) = last.y

\* C3 as amended: setbit(i, value) returns the receiver's value with bit i
\* set (cleared for value 0) and every other bit unchanged, and leaves the
\* receiver as it was: a later getbit or setbit on the object sees the
\* value it had before the call.
C3_SetbitReturnsNewValue ==
    last.op = "setbit" =>
        /\ last.res.k = "int"
        /\ \A k \in 0..(MaxBit - 1) :
               getbit(last.res.i, k) = IF k = last.x THEN last.y ELSE getbit(last.before, k)
        /\ (last.res.i < 0) = (last.before < 0)
        /\ heap[last.recv] = last.before

C3_Witness ==
    /\ last.op = "setbit" /\ last.recv = genv.a /\ last.x = 20 /\ last.y = 1
    /\ last.res = IntRes(1048699)
    /\ heap[genv.a] = 123

\* C4: a copy of an xmpz is a distinct object with an equal value, and no
\* operation on one object changes the value of another (nor, here, of any
\* object that exists).
C4_CopyIsolated ==
    [][ /\ \A o \in DOMAIN heap : o \in DOMAIN heap' /\ heap'[o] = heap[o]
        /\ last'.op = "copy" =>
               /\ last'.x \notin DOMAIN heap
               /\ last'.x \in DOMAIN heap'
               /\ last'.x # last'.recv
               /\ heap'[last'.x] = heap[last'.recv] ]_vars

C4_Witness ==
    /\ last.op = "setbit" /\ last.recv = 3 /\ last.res.i # heap[3]
    /\ Len(heap) = 3 /\ heap[3] = heap[1]

\* C9: a call that raises ValueError, ZeroDivisionError or TypeError leaves
\* every object, binding and setting as it was, so a following operation
\* gives the result it would have given without the failing call.
C9_FailureChangesNothing ==
    [][ last'.res.k = "exc" =>
            /\ heap' = heap
            /\ genv' = genv
            /\ lenv' = lenv
            /\ tagoff' = tagoff
            /\ cache' = cache ]_vars

C9_Witness ==
    /\ last.op = "lshift" /\ last.x = -1
    /\ last.res = ExcRes("ValueError", "negative shift count")
    /\ heap[last.recv] = 123

----------------------------------------------------------------------------
(* Claim checked under SpecTest *)

\* C10: _test runs the examples twice, with default caching and then after
\* set_cache(0,128); every example gives in the second run the result it
\* gave in the first; and the first run leaves the module's a = 123 and
\* b = 456 and the tag toggle (set_tagoff(0) returns 1, set_tagoff(1)
\* returns 0) as it found them.
C10_SecondRunSame ==
    /\ pc = "run1" => run = 1 /\ cache.default /\ log2 = <<>>
    /\ pc \in {"run2", "done"} =>
           /\ run = 2
           /\ cache = [default |-> FALSE, size |-> 0, obsize |-> 128]
           /\ Len(log1) = Len(Examples)
           /\ \A i \in 1..Len(log2) : log2[i] = log1[i]
    /\ pc = "done" => Len(log2) = Len(Examples)
    /\ (pc = "run2" /\ ex = 1) =>
           /\ heap[genv.a] = 123
           /\ heap[genv.b] = 456
           /\ tagoff = 1
    /\ \A i \in 1..Len(log1) :
           Examples[i].op = "set_tagoff" => log1[i] = IntRes(1 - Examples[i].n)

C10_Witness ==
    /\ pc = "done"
    /\ Len(log2) = Len(Examples)
    /\ \E i \in 1..Len(log2) :
           Examples[i].op = "repr" /\ log2[i] = StrRes(<<"gmpy2.xmpz(", "1", "2", "3", ")">>)

============================================================================
